---- MODULE Spec2Model ----
(***************************************************************************)
(* Model of juniper's response value type (src/value.rs): the enum Value,  *)
(* its constructors, its discriminator and narrowing accessors, in-place   *)
(* mutation through as_mut_object_value, the derived PartialEq and the     *)
(* conversion ToInputValue::to.                                            *)
(***************************************************************************)
EXTENDS Integers, Sequences, FiniteSets, TLC

VARIABLES
    v,        \* the value under construction / inspection (a Value)
    w,        \* a second value, the right-hand side of ==
    built,    \* the constructor that built v
    mutated,  \* whether v was mutated in place since it was built
    op,       \* the last operation that ran
    inp,      \* the argument of the constructor that built v
    inpW,     \* the argument of the constructor that built w
    res,      \* what the last accessor / comparison / conversion returned
    expect    \* the entries v's map must hold: the initial map with every
              \* insert and remove applied in order (kept beside the code)

vars == <<v, w, built, mutated, op, inp, inpW, res, expect>>

----------------------------------------------------------------------------
(* Bounds and input sets *)

\* Largest number of nodes (scalars, lists, objects) of a value built in Spec.
MaxNodes == 4

\* Longest list given to Value::list in SpecEq.
MaxEqLen == 2

Ints == {0, 1}

\* f64 payloads, by name: two zeros, a finite non-zero value and a NaN.
Floats == {"0.0", "-0.0", "2.5", "NaN"}

Strs == {"", "x"}

\* Keys of the maps that are mutated in place.
Keys == {"a", "b"}

\* Keys K of the map given to Value::object: K is any type that is
\* AsRef<str> + Eq + Hash, so two keys that differ under Eq may give the
\* same string. A key is a pair <<string view, discriminator>>.
InKeys == {<<"a", 1>>, <<"a", 2>>, <<"b", 1>>}

\* K = String: one key per string.
StrKeys == {<<"a", 1>>, <<"b", 1>>}

----------------------------------------------------------------------------
(* enum Value and Option *)

None == [some |-> FALSE]

Some(x) == [some |-> TRUE, val |-> x]

Null == [tag |-> "Null"]

Int_(i) == [tag |-> "Int", i |-> i]

Float(f) == [tag |-> "Float", f |-> f]

String_(s) == [tag |-> "String", s |-> s]

Boolean(b) == [tag |-> "Boolean", b |-> b]

List(l) == [tag |-> "List", l |-> l]

Object(o) == [tag |-> "Object", o |-> o]

\* k.as_ref(): the string view of an input key.
as_ref(k) == k[1]

\* The empty HashMap.
EmptyMap == [k \in {} |-> Null]

\* HashMap::insert: the entry for key is created or overwritten.
MapInsert(o, key, val) ==
    [k \in DOMAIN o \cup {key} |-> IF k = key THEN val ELSE o[k]]

\* HashMap::remove.
MapRemove(o, key) == [k \in DOMAIN o \ {key} |-> o[k]]

\* Iterator::collect into a HashMap: the entries are inserted one after the
\* other, in iteration order.
RECURSIVE Collect(_, _)
Collect(o, it) ==
    IF it = <<>> THEN o
    ELSE Collect(MapInsert(o, it[1].key, it[1].val), Tail(it))

\* .map(|(k, v)| (k.as_ref().to_owned(), v))
MapKeys(it) == [i \in 1..Len(it) |-> [key |-> as_ref(it[i].key), val |-> it[i].val]]

Reverse(q) == [i \in 1..Len(q) |-> q[Len(q) + 1 - i]]

----------------------------------------------------------------------------
(* Constructors *)

null == Null

int(i) == Int_(i)

float(f) == Float(f)

string(s) == String_(s)

boolean(b) == Boolean(b)

\* A list constructor that stores its elements back to front.
list_reversed(l) == List(Reverse(l))

list(l) == List(l)

\* An object constructor that keeps the first entry of colliding keys.
object_first_wins(it) == Object(Collect(EmptyMap, Reverse(MapKeys(it))))

\* it: the entries of the input map o, in the order o.into_iter() yields them.
object(it) == Object(Collect(EmptyMap, MapKeys(it)))

----------------------------------------------------------------------------
(* Discriminators and narrowing accessors *)

\* A discriminator that also takes the integer zero for null.
is_null_or_zero(val) ==
    val.tag = "Null" \/ (val.tag = "Int" /\ val.i = 0)

is_null(val) == IF val.tag = "Null" THEN TRUE ELSE FALSE

\* A read-only accessor whose Object arm was left out.
as_object_none(val) == None

as_object_value(val) == IF val.tag = "Object" THEN Some(val.o) ELSE None

\* A mutable accessor whose Object arm was left out.
as_mut_object_none(val) == None

as_mut_object_value(val) == IF val.tag = "Object" THEN Some(val.o) ELSE None

as_list_value(val) == IF val.tag = "List" THEN Some(val.l) ELSE None

\* A string accessor that also answers for an integer.
as_string_or_int(val) ==
    IF val.tag \in {"String", "Int"} THEN Some("") ELSE None

as_string_value(val) == IF val.tag = "String" THEN Some(val.s) ELSE None

----------------------------------------------------------------------------
(* Sizes and the inputs the constructors are given *)

RECURSIVE Sum(_, _)
Sum(f, S) == IF S = {} THEN 0
             ELSE LET x == CHOOSE y \in S : TRUE IN f[x] + Sum(f, S \ {x})

RECURSIVE Size(_)
Size(val) ==
    CASE val.tag = "List" ->
           1 + Sum([i \in 1..Len(val.l) |-> Size(val.l[i])], 1..Len(val.l))
      [] val.tag = "Object" ->
           1 + Sum([k \in DOMAIN val.o |-> Size(val.o[k])], DOMAIN val.o)
      [] OTHER -> 1

\* Children built beforehand, besides v itself.
Leaves == {null, int(1)}

SeqsUpTo(S, n) == UNION {[1..m -> S] : m \in 0..n}

\* The children of a container that is not empty: the value built so far,
\* moved into it (a Value cannot be cloned, so it appears once), and leaves
\* around it.
Children(n) ==
    {xs \in [1..n -> Leaves \cup {v}] :
        \E p \in 1..n : xs[p] = v /\ \A q \in 1..n : q # p => xs[q] \in Leaves}

\* Vec<Value> arguments of Value::list.
ListInputs == {<<>>} \cup UNION {Children(n) : n \in 1..(MaxNodes - Size(v))}

\* o.into_iter() / o.iter(): every key once, in an order the map chooses.
Orders(S) ==
    {ord \in [1..Cardinality(S) -> S] :
        \A i, j \in 1..Cardinality(S) : i # j => ord[i] # ord[j]}

\* HashMap<K, Value> arguments of Value::object, each as the sequence of
\* entries its iteration yields.
ObjectInputs(K) ==
    UNION {
      {[i \in 1..Len(ord) |-> [key |-> ord[i], val |-> vals[i]]] :
          vals \in IF ord = <<>> THEN {<<>>} ELSE Children(Len(ord))} :
      ord \in UNION {Orders(S) :
                       S \in {T \in SUBSET K :
                                Cardinality(T) <= MaxNodes - Size(v)}}}

----------------------------------------------------------------------------
(* ToInputValue: InputValue, Spanning and the conversion *)

\* Spanning::unlocated: the item with no source span attached.
unlocated(x) == [item |-> x, span |-> None]

IVNull == [lit |-> "Null"]

IVInt(i) == [lit |-> "Int", i |-> i]

IVFloat(f) == [lit |-> "Float", f |-> f]

IVString(s) == [lit |-> "String", s |-> s]

IVBoolean(b) == [lit |-> "Boolean", b |-> b]

IVList(items) == [lit |-> "List", items |-> items]

IVObject(fields) == [lit |-> "Object", fields |-> fields]

\* to(val) is the set of InputValues val.to() may return: one for each order
\* in which the HashMaps inside val are iterated.
RECURSIVE to(_)

RECURSIVE toItems(_)
\* l.iter().map(|x| Spanning::unlocated(x.to())).collect()
toItems(l) ==
    IF l = <<>> THEN {<<>>}
    ELSE {<<unlocated(h)>> \o t : h \in to(l[1]), t \in toItems(Tail(l))}

RECURSIVE toFields(_, _)
\* o.iter().map(|(k,v)| (Spanning::unlocated(k.clone()),
\*                       Spanning::unlocated(v.to()))).collect()
\* for the iteration order ord.
toFields(o, ord) ==
    IF ord = <<>> THEN {<<>>}
    ELSE {<< <<unlocated(ord[1]), unlocated(x)>> >> \o t :
            x \in to(o[ord[1]]), t \in toFields(o, Tail(ord))}

\* A List arm that forgets the order of the elements.
toList_reversed(l) == {IVList(Reverse(items)) : items \in toItems(l)}

\* An Object arm that stops after the first entry of the map.
toObject_first_only(o) ==
    {IVObject(IF fields = <<>> THEN fields ELSE <<fields[1]>>) :
        fields \in UNION {toFields(o, ord) : ord \in Orders(DOMAIN o)}}

toList(l) == {IVList(items) : items \in toItems(l)}

toObject(o) ==
    {IVObject(fields) :
        fields \in UNION {toFields(o, ord) : ord \in Orders(DOMAIN o)}}

\* A conversion whose Boolean arm builds a string literal.
to_boolean_as_string(val) ==
    CASE val.tag = "Null" -> {IVNull}
      [] val.tag = "Int" -> {IVInt(val.i)}
      [] val.tag = "Float" -> {IVFloat(val.f)}
      [] val.tag = "String" -> {IVString(val.s)}
      [] val.tag = "Boolean" -> {IVString(IF val.b THEN "true" ELSE "false")}
      [] val.tag = "List" -> toList(val.l)
      [] val.tag = "Object" -> toObject(val.o)

to(val) ==
    CASE val.tag = "Null" -> {IVNull}
      [] val.tag = "Int" -> {IVInt(val.i)}
      [] val.tag = "Float" -> {IVFloat(val.f)}
      [] val.tag = "String" -> {IVString(val.s)}
      [] val.tag = "Boolean" -> {IVBoolean(val.b)}
      [] val.tag = "List" -> toList(val.l)
      [] val.tag = "Object" -> toObject(val.o)

----------------------------------------------------------------------------
(* derive(PartialEq) *)

\* f64 == : a NaN equals nothing, the two zeros are equal.
FloatEq(f, g) ==
    /\ f # "NaN"
    /\ g # "NaN"
    /\ (f = g \/ {f, g} = {"0.0", "-0.0"})

RECURSIVE ValueEq(_, _)
\* Vec<Value> == : same length and equal element by element.
VecEq(l, m) ==
    /\ Len(l) = Len(m)
    /\ \A i \in 1..Len(l) : ValueEq(l[i], m[i])

\* HashMap<String, Value> == : same number of entries, and every entry of
\* the one has an equal value under the same key in the other.
\* A map comparison that looks at the keys only.
MapEq_keys_only(o, p) == DOMAIN o = DOMAIN p

MapEq(o, p) ==
    /\ Cardinality(DOMAIN o) = Cardinality(DOMAIN p)
    /\ \A k \in DOMAIN o : k \in DOMAIN p /\ ValueEq(o[k], p[k])

ValueEq(a, b) ==
    /\ a.tag = b.tag
    /\ CASE a.tag = "Null" -> TRUE
         [] a.tag = "Int" -> a.i = b.i
         [] a.tag = "Float" -> FloatEq(a.f, b.f)
         [] a.tag = "String" -> a.s = b.s
         [] a.tag = "Boolean" -> a.b = b.b
         [] a.tag = "List" -> VecEq(a.l, b.l)
         [] a.tag = "Object" -> MapEq(a.o, b.o)

----------------------------------------------------------------------------
(* The program: construction, inspection, mutation, conversion *)

Entries(o) == {<<k, o[k]>> : k \in DOMAIN o}

Init ==
    /\ v = null
    /\ w = null
    /\ built = "null"
    /\ mutated = FALSE
    /\ op = "null"
    /\ inp = <<>>
    /\ inpW = <<>>
    /\ res = None
    /\ expect = {}

\* v is replaced by a newly constructed value.
Construct(name, val, arg) ==
    /\ v' = val
    /\ built' = name
    /\ mutated' = FALSE
    /\ op' = name
    /\ inp' = arg
    /\ res' = None
    /\ expect' = IF val.tag = "Object" THEN Entries(val.o) ELSE {}
    /\ UNCHANGED <<w, inpW>>

MkNull == Construct("null", null, <<>>)

MkInt == \E i \in Ints : Construct("int", int(i), <<i>>)

MkFloat == \E f \in Floats : Construct("float", float(f), <<f>>)

MkString == \E s \in Strs : Construct("string", string(s), <<s>>)

MkBoolean == \E b \in BOOLEAN : Construct("boolean", boolean(b), <<b>>)

MkList == \E xs \in ListInputs : Construct("list", list(xs), xs)

MkObject == \E it \in ObjectInputs(InKeys) : Construct("object", object(it), it)

\* An operation that only reads v.
Inspect(name, result) ==
    /\ op' = name
    /\ res' = result
    /\ UNCHANGED <<v, w, built, mutated, inp, inpW, expect>>

IsNull == Inspect("is_null", is_null(v))

AsObject == Inspect("as_object_value", as_object_value(v))

AsMutObject == Inspect("as_mut_object_value", as_mut_object_value(v))

AsList == Inspect("as_list_value", as_list_value(v))

AsString == Inspect("as_string_value", as_string_value(v))

To == \E lit \in to(v) : Inspect("to", lit)

\* if let Some(o) = v.as_mut_object_value() { o.insert(key, val); }
Insert ==
    \E key \in Keys, val \in Leaves :
        LET view == as_mut_object_value(v)
            next == IF view.some THEN Object(MapInsert(view.val, key, val))
                    ELSE v
        IN  /\ Size(next) <= MaxNodes
            /\ v' = next
            /\ op' = "insert"
            /\ res' = view
            /\ mutated' = (mutated \/ v.tag = "Object")
            /\ expect' = IF v.tag = "Object"
                         THEN {e \in expect : e[1] # key} \cup {<<key, val>>}
                         ELSE expect
            /\ inp' = IF v.tag = "Object" THEN <<>> ELSE inp
            /\ UNCHANGED <<w, built, inpW>>

\* if let Some(o) = v.as_mut_object_value() { o.remove(key); }
Remove ==
    \E key \in Keys :
        LET view == as_mut_object_value(v)
            next == IF view.some THEN Object(MapRemove(view.val, key))
                    ELSE v
        IN  /\ v' = next
            /\ op' = "remove"
            /\ res' = view
            /\ mutated' = (mutated \/ v.tag = "Object")
            /\ expect' = IF v.tag = "Object"
                         THEN {e \in expect : e[1] # key}
                         ELSE expect
            /\ inp' = IF v.tag = "Object" THEN <<>> ELSE inp
            /\ UNCHANGED <<w, built, inpW>>

Next ==
    \/ MkNull
    \/ MkInt
    \/ MkFloat
    \/ MkString
    \/ MkBoolean
    \/ MkList
    \/ MkObject
    \/ IsNull
    \/ AsObject
    \/ AsMutObject
    \/ AsList
    \/ AsString
    \/ To
    \/ Insert
    \/ Remove

Spec == Init /\ [][Next]_vars

----------------------------------------------------------------------------
(* A second program: two values are built and compared with == *)

\* Children of the lists and objects that are compared.
EqLeaves ==
    {int(1), float("0.0"), float("-0.0"), float("NaN"),
     list(<<float("NaN")>>)}

\* HashMap<String, Value> arguments, as the entry sequences they yield.
EqObjectInputs ==
    UNION {
      {[i \in 1..Len(ord) |-> [key |-> ord[i], val |-> vals[i]]] :
          vals \in [1..Len(ord) -> EqLeaves]} :
      ord \in UNION {Orders(S) :
                       S \in {T \in SUBSET StrKeys :
                                Cardinality(T) <= MaxEqLen}}}

\* The constructor calls whose results are compared.
EqCalls ==
    {[ctor |-> "null", arg |-> <<>>, val |-> null]}
    \cup {[ctor |-> "int", arg |-> <<i>>, val |-> int(i)] : i \in Ints}
    \cup {[ctor |-> "float", arg |-> <<f>>, val |-> float(f)] : f \in Floats}
    \cup {[ctor |-> "string", arg |-> <<s>>, val |-> string(s)] : s \in Strs}
    \cup {[ctor |-> "boolean", arg |-> <<b>>, val |-> boolean(b)] :
            b \in BOOLEAN}
    \cup {[ctor |-> "list", arg |-> xs, val |-> list(xs)] :
            xs \in SeqsUpTo(EqLeaves, MaxEqLen)}
    \cup {[ctor |-> "object", arg |-> it, val |-> object(it)] :
            it \in EqObjectInputs}

InitEq ==
    \E a, b \in EqCalls :
        /\ v = a.val
        /\ built = a.ctor
        /\ inp = a.arg
        /\ w = b.val
        /\ inpW = b.arg
        /\ mutated = FALSE
        /\ op = a.ctor
        /\ res = None
        /\ expect = IF a.val.tag = "Object" THEN Entries(a.val.o) ELSE {}

\* v == w
Eq ==
    /\ op # "eq"
    /\ op' = "eq"
    /\ res' = ValueEq(v, w)
    /\ UNCHANGED <<v, w, built, mutated, inp, inpW, expect>>

NextEq == Eq

SpecEq == InitEq /\ [][NextEq]_vars

----------------------------------------------------------------------------
(* Properties *)

\* The string keys of the entries of a constructor argument.
KeyStrings(it) == {as_ref(it[i].key) : i \in 1..Len(it)}

\* No two entries of the argument have the same string view.
UniqueStrings(it) ==
    \A i, j \in 1..Len(it) :
        i # j => as_ref(it[i].key) # as_ref(it[j].key)

\* C1: key-collision law of Value::object. Whatever keys of the input map
\* have the same string view, the call yields an Object whose key set is the
\* set of string views, and the value under each string is the value of the
\* last input entry, in iteration order, with that string view; entries that
\* collide with no other are kept as they are.
C1_KeyCollisionLastWins ==
    op = "object" =>
        /\ v.tag = "Object"
        /\ DOMAIN v.o = KeyStrings(inp)
        /\ \A i \in 1..Len(inp) :
              (\A j \in (i + 1)..Len(inp) :
                  as_ref(inp[j].key) # as_ref(inp[i].key))
              => v.o[as_ref(inp[i].key)] = inp[i].val

\* A three-entry map with two distinct keys of the same string view and
\* different values was given to Value::object.
C1_Witness ==
    /\ op = "object"
    /\ Len(inp) = 3
    /\ \E i, j \in 1..Len(inp) :
          /\ i < j
          /\ inp[i].key # inp[j].key
          /\ as_ref(inp[i].key) = as_ref(inp[j].key)
          /\ inp[i].val # inp[j].val
          /\ v.o[as_ref(inp[j].key)] = inp[j].val
    /\ Cardinality(DOMAIN v.o) = 2

\* C2: mutation law. A value built by Value::object is still an Object after
\* any sequence of inserts and removes through as_mut_object_value, and
\* as_object_value shows exactly the entries of the initial map with those
\* operations applied in order, one entry per key.
C2_MutationLaw ==
    built = "object" =>
        /\ v.tag = "Object"
        /\ as_object_value(v).some
        /\ Entries(as_object_value(v).val) = expect
        /\ \A e, g \in expect : e[1] = g[1] => e = g

\* insert("a", int(1)) ran on an object and the object now holds exactly
\* that entry.
C2_Witness ==
    /\ op = "insert"
    /\ mutated
    /\ built = "object"
    /\ expect = {<<"a", int(1)>>}
    /\ as_object_value(v).val = [k \in {"a"} |-> int(1)]

\* C3: object round trip. For a map with unique string keys,
\* as_object_value(Value::object(m)) is present, has the key set of m and
\* under each key the value of m.
C3_ObjectRoundTrip ==
    (op = "as_object_value" /\ built = "object" /\ ~mutated
        /\ UniqueStrings(inp)) =>
        /\ res.some
        /\ DOMAIN res.val = KeyStrings(inp)
        /\ Cardinality(DOMAIN res.val) = Len(inp)
        /\ \A i \in 1..Len(inp) : res.val[as_ref(inp[i].key)] = inp[i].val

\* as_object_value ran on an object just built from two entries with
\* different strings, one of them a container.
C3_Witness ==
    /\ op = "as_object_value"
    /\ built = "object"
    /\ ~mutated
    /\ UniqueStrings(inp)
    /\ Len(inp) = 2
    /\ \E i \in 1..2 : inp[i].val.tag \in {"List", "Object"}
    /\ res.some

\* C4: list round trip. as_list_value(Value::list(xs)) is present and is xs,
\* element by element in the same order; for a value of any other variant
\* as_list_value is absent.
C4_ListRoundTrip ==
    op = "as_list_value" =>
        /\ built = "list" => (res.some /\ res.val = inp)
        /\ v.tag # "List" => res = None
        /\ built # "list" => v.tag # "List"

\* as_list_value ran on a list of two different elements.
C4_Witness ==
    /\ op = "as_list_value"
    /\ built = "list"
    /\ Len(inp) = 2
    /\ inp[1] # inp[2]
    /\ res.some

\* The tags of InputValue; to() builds none of the last two.
InputValueTags ==
    {"Null", "Int", "Float", "String", "Boolean", "List", "Object",
     "Variable", "Enum"}

\* C5: to() is total and keeps the variant: every value has a conversion,
\* its tag is the tag of the value, a scalar keeps its payload, and the
\* result is never a variable or an enum literal.
C5_ConversionTotalTagPreserving ==
    /\ to(v) # {}
    /\ op = "to" =>
          /\ res.lit = v.tag
          /\ res.lit \in InputValueTags \ {"Variable", "Enum"}
          /\ v.tag = "Int" => res = IVInt(v.i)
          /\ v.tag = "Float" => res = IVFloat(v.f)
          /\ v.tag = "String" => res = IVString(v.s)
          /\ v.tag = "Boolean" => res = IVBoolean(v.b)
          /\ v.tag = "Null" => res = IVNull

\* to() ran on boolean(true).
C5_Witness ==
    /\ op = "to"
    /\ v = boolean(TRUE)
    /\ res = IVBoolean(TRUE)

\* lit is val converted: same variant, same scalar payload, the elements of
\* a list in order, one field per key of an object, every element, key and
\* field value without a source span, at every depth.
RECURSIVE Converted(_, _)
Converted(lit, val) ==
    /\ lit.lit = val.tag
    /\ CASE val.tag = "Null" -> TRUE
         [] val.tag = "Int" -> lit.i = val.i
         [] val.tag = "Float" -> lit.f = val.f
         [] val.tag = "String" -> lit.s = val.s
         [] val.tag = "Boolean" -> lit.b = val.b
         [] val.tag = "List" ->
              /\ Len(lit.items) = Len(val.l)
              /\ \A i \in 1..Len(val.l) :
                    /\ lit.items[i].span = None
                    /\ Converted(lit.items[i].item, val.l[i])
         [] val.tag = "Object" ->
              /\ Len(lit.fields) = Cardinality(DOMAIN val.o)
              /\ {lit.fields[i][1].item : i \in 1..Len(lit.fields)}
                   = DOMAIN val.o
              /\ \A i \in 1..Len(lit.fields) :
                    /\ lit.fields[i][1].span = None
                    /\ lit.fields[i][2].span = None
                    /\ Converted(lit.fields[i][2].item,
                                 val.o[lit.fields[i][1].item])

\* C6: to() on a list yields a literal list of as many entries, the i-th
\* being the unlocated conversion of the i-th element, at every depth.
C6_ConversionOfLists ==
    (op = "to" /\ v.tag = "List") =>
        /\ res.lit = "List"
        /\ Len(res.items) = Len(v.l)
        /\ \A i \in 1..Len(v.l) :
              /\ res.items[i].span = None
              /\ Converted(res.items[i].item, v.l[i])

\* to() ran on list([int(1), null()]) and gave the literal list [1, null].
C6_Witness ==
    /\ op = "to"
    /\ v = list(<<int(1), null>>)
    /\ res = IVList(<<unlocated(IVInt(1)), unlocated(IVNull)>>)

\* C7: to() on an object yields a literal object with exactly one field per
\* key, each an unlocated key with the unlocated conversion of its value,
\* nested containers converted the same way.
C7_ConversionOfObjects ==
    (op = "to" /\ v.tag = "Object") =>
        /\ res.lit = "Object"
        /\ Len(res.fields) = Cardinality(DOMAIN v.o)
        /\ {res.fields[i][1].item : i \in 1..Len(res.fields)} = DOMAIN v.o
        /\ \A i \in 1..Len(res.fields) :
              /\ res.fields[i][1] = unlocated(res.fields[i][1].item)
              /\ res.fields[i][2].span = None
              /\ Converted(res.fields[i][2].item,
                           v.o[res.fields[i][1].item])

\* to() ran on object({"a": list([int(1)])}).
C7_Witness ==
    /\ op = "to"
    /\ v = Object([k \in {"a"} |-> list(<<int(1)>>)])
    /\ res = IVObject(<< <<unlocated("a"),
                           unlocated(IVList(<<unlocated(IVInt(1))>>))>> >>)

\* The value with every negative zero written as zero.
RECURSIVE Canon(_)
Canon(val) ==
    CASE val.tag = "Float" -> IF val.f = "-0.0" THEN Float("0.0") ELSE val
      [] val.tag = "List" ->
           List([i \in 1..Len(val.l) |-> Canon(val.l[i])])
      [] val.tag = "Object" ->
           Object([k \in DOMAIN val.o |-> Canon(val.o[k])])
      [] OTHER -> val

\* Some float inside the value is a NaN.
RECURSIVE HasNaN(_)
HasNaN(val) ==
    CASE val.tag = "Float" -> val.f = "NaN"
      [] val.tag = "List" -> \E i \in 1..Len(val.l) : HasNaN(val.l[i])
      [] val.tag = "Object" -> \E k \in DOMAIN val.o : HasNaN(val.o[k])
      [] OTHER -> FALSE

\* Both values are objects built from the same entries, given in different
\* orders.
SameEntriesOtherOrder ==
    /\ built = "object"
    /\ w.tag = "Object"
    /\ inp # inpW
    /\ {inp[i] : i \in 1..Len(inp)} = {inpW[i] : i \in 1..Len(inpW)}

\* What the equality law says of every pair of values but objects built
\* from the same entries.
EqualityElsewhere ==
    /\ res => (v.tag = w.tag /\ Canon(v) = Canon(w))
    /\ (v.tag = "Object" /\ w.tag = "Object") =>
          /\ DOMAIN v.o # DOMAIN w.o => ~res
          /\ (\E k \in DOMAIN v.o \cap DOMAIN w.o :
                 ~ValueEq(v.o[k], w.o[k])) => ~res
    /\ (v.tag = "List" /\ w.tag = "List" /\ Len(v.l) = Len(w.l)) =>
          ((\E i \in 1..Len(v.l) : ~ValueEq(v.l[i], w.l[i])) => ~res)

\* C8 as stated: == is structural and variant-sensitive, and two objects
\* built from the same entries in different orders are equal, whatever the
\* entries are.
C8_EqualityAsStated ==
    op = "eq" =>
        /\ EqualityElsewhere
        /\ SameEntriesOtherOrder => res

\* C8, amended: as stated, but two objects built from the same entries in
\* different orders are equal provided no float inside them is a NaN (under
\* f64's == a NaN equals nothing, itself included).
C8_EqualityLaw ==
    op = "eq" =>
        /\ EqualityElsewhere
        /\ (SameEntriesOtherOrder /\ ~HasNaN(v)) => res

\* Two objects built from the same two NaN-free entries in different orders
\* were compared and found equal.
C8_Witness ==
    /\ op = "eq"
    /\ SameEntriesOtherOrder
    /\ Len(inp) = 2
    /\ ~HasNaN(v)
    /\ res = TRUE

\* C9: is_null is true exactly of the values built by Value::null, also
\* after mutation through the mutable view.
C9_IsNullIffBuiltByNull ==
    /\ is_null(v) <=> built = "null"
    /\ op = "is_null" => (res <=> built = "null")

\* is_null ran on int(0) and answered false.
C9_Witness ==
    /\ op = "is_null"
    /\ v = int(0)
    /\ res = FALSE

\* The calls that answer with an Option of a view.
NarrowingOps ==
    {"as_object_value", "as_mut_object_value", "as_list_value",
     "as_string_value", "insert", "remove"}

\* What the narrowing accessors answer in the current state.
NarrowingAnswers ==
    /\ as_object_value(v).some <=> v.tag = "Object"
    /\ as_object_value(v).some => as_object_value(v).val = v.o
    /\ as_mut_object_value(v).some <=> v.tag = "Object"
    /\ as_mut_object_value(v).some => as_mut_object_value(v).val = v.o
    /\ as_list_value(v).some <=> v.tag = "List"
    /\ as_list_value(v).some => as_list_value(v).val = v.l
    /\ as_string_value(v).some <=> v.tag = "String"
    /\ as_string_value(v).some => as_string_value(v).val = v.s
    /\ ~(as_object_value(v).some /\ as_list_value(v).some)
    /\ ~(as_object_value(v).some /\ as_string_value(v).some)
    /\ ~(as_list_value(v).some /\ as_string_value(v).some)
    /\ v.tag \in {"Null", "Int", "Float", "Boolean"} =>
          /\ ~as_object_value(v).some
          /\ ~as_mut_object_value(v).some
          /\ ~as_list_value(v).some
          /\ ~as_string_value(v).some
    /\ op = "as_object_value" => res = as_object_value(v)
    /\ op = "as_list_value" => res = as_list_value(v)
    /\ op = "as_string_value" => res = as_string_value(v)
    /\ op = "as_mut_object_value" => res = as_mut_object_value(v)

\* A call that answered with absence left the value as it was.
AbsenceChangesNothing ==
    (op' \in NarrowingOps /\ ~res'.some) => v' = v

\* C10: the narrowing accessors answer with a view exactly for their own
\* variant (the view being the stored payload), at most one of the object,
\* list and string views exists, none for Null, Int, Float and Boolean, and
\* a call that answers with absence leaves the value unchanged.
C10_NarrowingByAbsence ==
    /\ []NarrowingAnswers
    /\ [][AbsenceChangesNothing]_vars

\* as_mut_object_value ran on a list and answered with absence.
C10_Witness ==
    /\ op = "as_mut_object_value"
    /\ v.tag = "List"
    /\ res = None

====
